---- MODULE Spec2Model ----
(***************************************************************************)
(* Live audio session of the Local Guide client.                           *)
(*                                                                         *)
(* Two layers are modelled, as in the source:                              *)
(*   - services/geminiService.ts, connectLiveSession: the per-session      *)
(*     closure state (nextStartTime, sources, mediaStream, scriptProcessor)*)
(*     and the four channel callbacks onopen/onmessage/onerror/onclose;    *)
(*   - components/LiveChatApp.tsx: the React state of the component, the   *)
(*     two button handlers and the three callbacks it hands to the service.*)
(*                                                                         *)
(* Time is counted in output frames (1/24000 s), so that the duration of a *)
(* decoded buffer of n frames is n.  A string is a sequence of characters. *)
(* The onmessage handler of the service is asynchronous: it is suspended   *)
(* at `await decodeAudioData(...)` and resumed when that promise settles.  *)
(***************************************************************************)
EXTENDS Integers, Sequences, FiniteSets, TLC

\* ---------------------------------------------------------------- bounds
MaxSessions == 2   \* conversations the user starts
MaxChunks   == 2   \* inbound audio chunks, over all sessions
MaxClock    == 1   \* last value of outputAudioContext.currentTime
MaxText     == 1   \* characters held by one transcription buffer
MaxHistory  == 2   \* entries of chatHistory
MaxCapture  == 2   \* invocations of the capture callback, per session
MaxSamples  == 2   \* samples of one captured chunk
MaxBytes    == 6   \* bytes of a buffer given to decodeAudioData
MaxChannels == 2   \* channel count given to decodeAudioData

Sessions == 1..MaxSessions
ChunkIds == 1..MaxChunks

\* ------------------------------------------------------- program constants
NormalClosure == 1000  \* CloseEvent.code of a clean close
NumChannels   == 1     \* numChannels passed to decodeAudioData
BytesPerSample == 2    \* Int16Array element size

\* ------------------------------------------------------------------ texts
Fragments == {<<"a">>, <<" ">>}
EmptyText == << >>

RECURSIVE TrimLeft(_)
TrimLeft(t) == IF t = << >> THEN t
               ELSE IF Head(t) = " " THEN TrimLeft(Tail(t)) ELSE t

RECURSIVE TrimRight(_)
TrimRight(t) == IF t = << >> THEN t
                ELSE IF t[Len(t)] = " " THEN TrimRight(SubSeq(t, 1, Len(t) - 1)) ELSE t

\* String.prototype.trim
Trim(t) == TrimRight(TrimLeft(t))

\* a string used as a condition: '' is falsy
Truthy(t) == t # EmptyText

Max(a, b) == IF a >= b THEN a ELSE b

\* --------------------------------------------------------------- messages
\* The audio payload of a message: absent, or a base64 string that is
\* either malformed or the encoding of `nbytes` bytes.
NoAudio == [present |-> FALSE, b64ok |-> TRUE, nbytes |-> 0]
AudioPayloads ==
    { [present |-> TRUE, b64ok |-> TRUE,  nbytes |-> 2],
      [present |-> TRUE, b64ok |-> TRUE,  nbytes |-> 4],
      [present |-> TRUE, b64ok |-> TRUE,  nbytes |-> 3],
      [present |-> TRUE, b64ok |-> FALSE, nbytes |-> 0] }

\* A transcription object of a message: absent, or carrying a text.
NoTranscription == [present |-> FALSE, text |-> EmptyText]
Transcriptions  == { [present |-> TRUE, text |-> f] : f \in Fragments }

AllMessages ==
    [ audio : AudioPayloads \cup {NoAudio},
      interrupted : BOOLEAN,
      inputTranscription  : Transcriptions \cup {NoTranscription},
      outputTranscription : Transcriptions \cup {NoTranscription},
      turnComplete : BOOLEAN ]

\* number of the optional parts, other than audio, a message carries
Extras(m) == (IF m.interrupted THEN 1 ELSE 0)
           + (IF m.inputTranscription.present THEN 1 ELSE 0)
           + (IF m.outputTranscription.present THEN 1 ELSE 0)
           + (IF m.turnComplete THEN 1 ELSE 0)

\* The messages the channel delivers in the model: a message with audio
\* carries at most one other part, a message without audio at most two.
Messages == { m \in AllMessages :
                /\ m.audio.present => Extras(m) <= 1
                /\ Extras(m) <= 2 }

NoMessage == [ audio |-> NoAudio, interrupted |-> FALSE,
               inputTranscription |-> NoTranscription,
               outputTranscription |-> NoTranscription,
               turnComplete |-> FALSE ]


\* ------------------------------------------------------------ inbound codec
\* decode(base64): atob throws on a malformed string.
decode(a) == [ok |-> a.b64ok, byteLength |-> a.nbytes]

\* decodeAudioData(data, ctx, sampleRate, numChannels): `new Int16Array(
\* data.buffer)` throws unless the byte length is a multiple of 2.
\* frameCount is the quotient dataInt16.length / numChannels, which need not
\* be an integer; createBuffer takes its length as an unsigned long, so the
\* quotient is truncated, and it throws when the length is 0.  The buffer
\* lasts length / sampleRate seconds, that is `frameCount` time units.
decodeAudioData(byteLength, numChannels) ==
    IF byteLength % BytesPerSample # 0
       THEN [ok |-> FALSE, frameCount |-> 0]
    ELSE LET int16Length == byteLength \div BytesPerSample
             length == int16Length \div numChannels
         IN IF length = 0
               THEN [ok |-> FALSE, frameCount |-> 0]
               ELSE [ok |-> TRUE, frameCount |-> length]

\* ------------------------------------------------------------ sample codec
\* A float sample is written as the integer x that stands for x / SampleUnit;
\* every x of -SampleUnit..SampleUnit is a float32 value of [-1, 1].
Int16Scale   == 32768
Int16Modulus == 2 * Int16Scale
SampleUnit   == 2 * Int16Scale
ByteModulus  == 256
\* 1 / 32768, the step of the int16 scale, in sample units
Int16Step    == SampleUnit \div Int16Scale
Pad          == 64      \* the character '=', after the 64 of the alphabet

\* the integer part of num / den, den > 0 (rounding toward zero)
Truncate(num, den) == IF num >= 0 THEN num \div den ELSE - ((- num) \div den)

\* storing the number num / den in an Int16Array: the fraction is dropped
\* and the integer is taken modulo 2^16 into -32768..32767
ToInt16(num, den) ==
    ((Truncate(num, den) + Int16Scale) % Int16Modulus) - Int16Scale

\* the two bytes of an int16, high byte first
Int16BytesBigEndian(k) == LET u == k % Int16Modulus
                          IN << u \div ByteModulus, u % ByteModulus >>

\* the two bytes of an int16, low byte first
Int16Bytes(k) == LET u == k % Int16Modulus
                 IN << u % ByteModulus, u \div ByteModulus >>

\* new Uint8Array(int16.buffer)
RECURSIVE Uint8View(_)
Uint8View(int16) ==
    IF int16 = << >> THEN << >>
    ELSE Int16Bytes(Head(int16)) \o Uint8View(Tail(int16))

\* new Int16Array(data.buffer), for a byte sequence of even length
RECURSIVE Int16View(_)
Int16View(bytes) ==
    IF Len(bytes) < BytesPerSample THEN << >>
    ELSE LET u == bytes[1] + ByteModulus * bytes[2]
         IN << IF u >= Int16Scale THEN u - Int16Modulus ELSE u >>
            \o Int16View(SubSeq(bytes, 3, Len(bytes)))

\* btoa of the binary string of the bytes: three bytes make four characters
\* of the alphabet (written by their index 0..63), the last group is padded
RECURSIVE btoa(_)
btoa(bytes) ==
    IF bytes = << >> THEN << >>
    ELSE IF Len(bytes) = 1
       THEN << bytes[1] \div 4, (bytes[1] % 4) * 16, Pad, Pad >>
    ELSE IF Len(bytes) = 2
       THEN << bytes[1] \div 4,
               (bytes[1] % 4) * 16 + bytes[2] \div 16,
               (bytes[2] % 16) * 4, Pad >>
    ELSE << bytes[1] \div 4,
            (bytes[1] % 4) * 16 + bytes[2] \div 16,
            (bytes[2] % 16) * 4 + bytes[3] \div 64,
            bytes[3] % 64 >>
         \o btoa(SubSeq(bytes, 4, Len(bytes)))

\* the bytes of a string of alphabet characters without padding
RECURSIVE FromSextets(_)
FromSextets(c) ==
    IF Len(c) < 2 THEN << >>
    ELSE IF Len(c) = 2
       THEN << c[1] * 4 + c[2] \div 16 >>
    ELSE IF Len(c) = 3
       THEN << c[1] * 4 + c[2] \div 16, (c[2] % 16) * 16 + c[3] \div 4 >>
    ELSE << c[1] * 4 + c[2] \div 16,
            (c[2] % 16) * 16 + c[3] \div 4,
            (c[3] % 4) * 64 + c[4] >>
         \o FromSextets(SubSeq(c, 5, Len(c)))

\* atob: when the length is a multiple of 4, one or two final '=' are
\* removed; the rest must hold alphabet characters only and its length must
\* not be 1 modulo 4, or atob throws
atob(b64) ==
    LET n == Len(b64)
        pads == IF n % 4 = 0 /\ n > 0 /\ b64[n] = Pad
                   THEN (IF b64[n - 1] = Pad THEN 2 ELSE 1)
                   ELSE 0
        c == SubSeq(b64, 1, n - pads)
    IN IF (\E i \in DOMAIN c : c[i] = Pad) \/ Len(c) % 4 = 1
          THEN [ok |-> FALSE, bytes |-> << >>]
          ELSE [ok |-> TRUE, bytes |-> FromSextets(c)]

\* encode(bytes), lines 40-47
encode(bytes) == btoa(bytes)

\* decode(base64), lines 11-19, on the characters of the string
decodeBytes(base64) == atob(base64)

\* line 53: int16[i] = data[i] * 32768; the product of the sample x is the
\* number x / Int16Step
Int16Of(x) == ToInt16(x, Int16Step)

\* a blob with another media type
createBlobWav(data) ==
    [ data |-> encode(Uint8View([i \in DOMAIN data |-> Int16Of(data[i])])),
      mimeType |-> "audio/wav" ]

\* createBlob(data), lines 49-59
createBlob(data) ==
    [ data |-> encode(Uint8View([i \in DOMAIN data |-> Int16Of(data[i])])),
      mimeType |-> "audio/pcm;rate=16000" ]

\* line 34: the float dataInt16[...] / 32768.0, as a sample
FloatOf(k) == k * Int16Step

\* decodeAudioData on the bytes themselves: the samples of each channel of
\* the buffer it returns.  Writes past the end of a channel are ignored.
decodeAudioSamples(data, numChannels) ==
    LET r == decodeAudioData(Len(data), numChannels) IN
    IF ~ r.ok THEN [ok |-> FALSE, channels |-> << >>]
    ELSE LET dataInt16 == Int16View(data) IN
         [ok |-> TRUE,
          channels |-> [channel \in 1..numChannels |->
                          [i \in 1..r.frameCount |->
                             FloatOf(dataInt16[(i - 1) * numChannels + channel])]]]

\* the samples, chunks and byte buffers the codec is applied to
SampleValues == { - SampleUnit, 1 - SampleUnit, -3, -1, 0, 1, 3,
                  SampleUnit - 1, SampleUnit }
SampleChunks == UNION { [1..n -> SampleValues] : n \in 1..MaxSamples }
ByteValues   == { 0, 127, 128, 255 }
ByteBuffers  == UNION { [1..n -> ByteValues] : n \in 0..MaxBytes }

\* ------------------------------------------------------------------ state
VARIABLES
    \* LiveChatApp: React state and refs
    isConnecting, isRecording, error,
    currentInputTranscription, currentOutputTranscription, chatHistory,
    sessionRef, sessionPromiseRef,
    \* the transcription values each session's onMessage closure captured
    captured,
    \* connectLiveSession: one closure per session
    phase, connect, nextStartTime, sources, mediaStream, scriptProcessor,
    \* history: close() was called on the session; the phase in which the
    \* session's last channel error was raised
    closeRequested, errored,
    \* inbound audio chunks, in arrival order, and the output clock
    chunk, arrived, clock,
    \* sessions started so far
    started,
    \* outbound audio: the sendRealtimeInput calls made on each session and
    \* the calls still waiting for the connect promise, each written as the
    \* number of the captured chunk it carries; the blob the capture callback
    \* built last; the rejected promises of the sends that threw, which have
    \* no handler; history: the states of the channel, other than open, in
    \* which a call was made
    sent, deferred, pcmBlob, unhandled, lateSends,
    \* the last call of a codec function, with its argument and its result
    call

uiVars  == <<isConnecting, isRecording, error, currentInputTranscription,
             currentOutputTranscription, chatHistory, sessionRef,
             sessionPromiseRef, captured>>
svcVars == <<phase, connect, nextStartTime, sources, mediaStream,
             scriptProcessor, closeRequested, errored>>
audVars == <<chunk, arrived, clock>>
wireVars == <<sent, deferred, pcmBlob, unhandled, lateSends>>
vars    == <<uiVars, svcVars, audVars, started, wireVars, call>>

NoSession == 0
NoChunk == [s |-> NoSession, st |-> "none", frames |-> 0, start |-> -1,
            endTime |-> -1, cut |-> "no", msg |-> NoMessage]

NoCapture == [input |-> EmptyText, output |-> EmptyText]
NoBlob == [data |-> << >>, mimeType |-> ""]
NoCall == [fn |-> "none"]

Init ==
    /\ isConnecting = FALSE
    /\ isRecording = FALSE
    /\ error = "null"
    /\ currentInputTranscription = EmptyText
    /\ currentOutputTranscription = EmptyText
    /\ chatHistory = << >>
    /\ sessionRef = NoSession
    /\ sessionPromiseRef = NoSession
    /\ captured = [s \in Sessions |-> NoCapture]
    /\ phase = [s \in Sessions |-> "idle"]
    /\ connect = [s \in Sessions |-> "none"]
    /\ nextStartTime = [s \in Sessions |-> 0]
    /\ sources = [s \in Sessions |-> {}]
    /\ mediaStream = [s \in Sessions |-> "null"]
    /\ scriptProcessor = [s \in Sessions |-> "null"]
    /\ closeRequested = [s \in Sessions |-> FALSE]
    /\ errored = [s \in Sessions |-> "no"]
    /\ chunk = [i \in ChunkIds |-> NoChunk]
    /\ arrived = 0
    /\ clock = 0
    /\ started = 0
    /\ sent = [s \in Sessions |-> << >>]
    /\ deferred = [s \in Sessions |-> << >>]
    /\ unhandled = [s \in Sessions |-> 0]
    /\ pcmBlob = NoBlob
    /\ lateSends = [s \in Sessions |-> {}]
    /\ call = NoCall

\* ------------------------------------------------- LiveChatApp callbacks
\* onMessage, lines 38-44: the fragment of a message is appended to its
\* buffer; the input branch is the `else` of the output branch.
TranscribedOutput(m, cur) ==
    IF m.outputTranscription.present THEN cur \o m.outputTranscription.text
    ELSE cur

TranscribedInput(m, cur) ==
    IF m.outputTranscription.present THEN cur
    ELSE IF m.inputTranscription.present THEN cur \o m.inputTranscription.text
    ELSE cur

\* the entries of a turn-complete, the model's entry put first
TurnEntriesModelFirst(cap) ==
    (IF Truthy(Trim(cap.output))
        THEN << [sender |-> "model", text |-> cap.output] >> ELSE << >>)
    \o
    (IF Truthy(Trim(cap.input))
        THEN << [sender |-> "user", text |-> cap.input] >> ELSE << >>)

\* onMessage, lines 47-58: the entries a turn-complete appends.  The two
\* texts are the variables of the render in which the conversation was
\* started, which the callback closed over.
TurnEntries(cap) ==
    (IF Truthy(Trim(cap.input))
        THEN << [sender |-> "user", text |-> cap.input] >> ELSE << >>)
    \o
    (IF Truthy(Trim(cap.output))
        THEN << [sender |-> "model", text |-> cap.output] >> ELSE << >>)

\* onMessage of the conversation s, lines 37-62
UiOnMessage(s, m) ==
    /\ currentInputTranscription' =
          IF m.turnComplete THEN EmptyText
          ELSE TranscribedInput(m, currentInputTranscription)
    /\ currentOutputTranscription' =
          IF m.turnComplete THEN EmptyText
          ELSE TranscribedOutput(m, currentOutputTranscription)
    /\ chatHistory' =
          IF m.turnComplete THEN chatHistory \o TurnEntries(captured[s])
          ELSE chatHistory
    /\ UNCHANGED <<isConnecting, isRecording, error, sessionRef,
                   sessionPromiseRef, captured>>

\* entries the handling of m by the conversation s adds to chatHistory
Added(s, m) == IF m.turnComplete THEN Len(TurnEntries(captured[s])) ELSE 0

\* onError, lines 63-68
UiOnError ==
    /\ error' = "live"
    /\ isConnecting' = FALSE
    /\ isRecording' = FALSE
    /\ UNCHANGED <<currentInputTranscription, currentOutputTranscription,
                   chatHistory, sessionRef, sessionPromiseRef, captured>>

\* onClose, lines 69-76
UiOnClose(code) ==
    /\ isConnecting' = FALSE
    /\ isRecording' = FALSE
    /\ error' = IF code # NormalClosure THEN "disconnected" ELSE "null"
    /\ sessionRef' = NoSession
    /\ sessionPromiseRef' = NoSession
    /\ UNCHANGED <<currentInputTranscription, currentOutputTranscription,
                   chatHistory, captured>>

\* ------------------------------------------ connectLiveSession: playback
\* The playback state of one session closure.
Playback(s) == [nextStartTime |-> nextStartTime[s], sources |-> sources[s]]

\* a cursor that ignores the clock
CursorKeeps(pb, currentTime) == pb

\* a schedule that leaves the cursor where it is
ScheduleNoAdvance(pb, id, duration) ==
    [nextStartTime |-> pb.nextStartTime,
     sources |-> pb.sources \cup {id}]

\* line 210, before the await
Cursor(pb, currentTime) ==
    [pb EXCEPT !.nextStartTime = Max(pb.nextStartTime, currentTime)]

\* lines 218-226, after the await: the source of chunk id is started at the
\* cursor, the cursor advances by the buffer's duration, the source joins
\* the set.
Schedule(pb, id, duration) ==
    [nextStartTime |-> pb.nextStartTime + duration,
     sources |-> pb.sources \cup {id}]

\* a catch block that skips the time of one frame
DropSkipsFrame(pb) == [pb EXCEPT !.nextStartTime = @ + 1]

\* lines 227-229: the catch block logs the error of atob, of
\* decodeAudioData or of the scheduling and goes on to the interruption
\* test; the chunk is left out of the playback state
Drop(pb) == pb

\* a flush that forgets to reset the cursor
FlushKeepsCursor(pb) == [nextStartTime |-> pb.nextStartTime, sources |-> {}]

\* lines 234-238 and 250-254: every source of the set is stopped and
\* deleted, the cursor returns to 0.
Flush(pb) == [nextStartTime |-> 0, sources |-> {}]

\* history of a flush processed for the reason `why`: `cut` is set on the
\* chunks whose source is stopped (those of src) and on the chunks of the
\* session that had arrived, up to chunk `upto`, and are still being decoded
MarkCut(ch, s, src, upto, why) ==
    [i \in ChunkIds |->
        IF /\ ch[i].cut = "no"
           /\ \/ i \in src
              \/ ch[i].s = s /\ i <= upto /\ ch[i].st = "decoding"
           THEN [ch[i] EXCEPT !.cut = why] ELSE ch[i]]

\* a rest of onmessage that does not call the caller's onMessage
OnMessageRestSilent(s, m, pb, ch, upto) ==
    LET pb2 == IF m.interrupted THEN Flush(pb) ELSE pb IN
    /\ nextStartTime' = [nextStartTime EXCEPT ![s] = pb2.nextStartTime]
    /\ sources' = [sources EXCEPT ![s] = pb2.sources]
    /\ chunk' = IF m.interrupted
                   THEN MarkCut(ch, s, pb.sources, upto, "interrupt")
                   ELSE ch
    /\ UNCHANGED uiVars

\* lines 232-241: the rest of onmessage, from the interruption test on.
\* pb and ch are the playback state and chunk table reached so far; upto is
\* the last chunk that arrived before this message.
OnMessageRest(s, m, pb, ch, upto) ==
    LET pb2 == IF m.interrupted THEN Flush(pb) ELSE pb IN
    /\ nextStartTime' = [nextStartTime EXCEPT ![s] = pb2.nextStartTime]
    /\ sources' = [sources EXCEPT ![s] = pb2.sources]
    /\ chunk' = IF m.interrupted
                   THEN MarkCut(ch, s, pb.sources, upto, "interrupt")
                   ELSE ch
    /\ UiOnMessage(s, m)

\* characters and entries that suspended handlers will still hand to the
\* component (they keep the buffers and the history within the bounds)
RECURSIVE PendingSum(_, _)
PendingSum(f(_), i) ==
    IF i = 0 THEN 0
    ELSE (IF chunk[i].st = "decoding" THEN f(chunk[i]) ELSE 0) + PendingSum(f, i - 1)

PendingInput(c)  == Len(c.msg.inputTranscription.text)
PendingOutput(c) == Len(c.msg.outputTranscription.text)
PendingAdded(c)  == Added(c.s, c.msg)

Deliverable(s, m) ==
    /\ Len(currentInputTranscription) + PendingSum(PendingInput, MaxChunks)
          + Len(m.inputTranscription.text) <= MaxText
    /\ Len(currentOutputTranscription) + PendingSum(PendingOutput, MaxChunks)
          + Len(m.outputTranscription.text) <= MaxText
    /\ Len(chatHistory) + PendingSum(PendingAdded, MaxChunks) + Added(s, m)
          <= MaxHistory
    /\ m.audio.present => arrived < MaxChunks

\* onmessage, lines 206-242, from the call to the await (or to the end when
\* the message has no audio, or atob throws and the catch block runs).
OnMessage(s, m) ==
    /\ phase[s] = "open"
    /\ Deliverable(s, m)
    /\ UNCHANGED <<phase, connect, mediaStream, scriptProcessor,
                   closeRequested, errored, clock, started, wireVars, call>>
    /\ IF ~ m.audio.present
          THEN /\ OnMessageRest(s, m, Playback(s), chunk, arrived)
               /\ UNCHANGED arrived
       ELSE LET id == arrived + 1
                pb == Cursor(Playback(s), clock)
            IN /\ arrived' = id
               /\ IF ~ decode(m.audio).ok
                     THEN OnMessageRest(s, m, Drop(pb),
                            [chunk EXCEPT ![id] = [NoChunk EXCEPT !.s = s, !.st = "dropped"]],
                            id)
                  ELSE /\ chunk' = [chunk EXCEPT ![id] =
                                      [NoChunk EXCEPT !.s = s, !.st = "decoding", !.msg = m]]
                       /\ nextStartTime' = [nextStartTime EXCEPT ![s] = pb.nextStartTime]
                       /\ UNCHANGED <<sources, uiVars>>

\* onmessage, lines 212-242, from the await on: the decode of chunk id has
\* settled and the suspended handler resumes.
OnMessageResume(id) ==
    LET c  == chunk[id]
        s  == c.s
        m  == c.msg
        r  == decodeAudioData(decode(m.audio).byteLength, NumChannels)
        pb == Playback(s)
    IN /\ c.st = "decoding"
       /\ UNCHANGED <<phase, connect, mediaStream, scriptProcessor,
                      closeRequested, errored, arrived, clock, started,
                      wireVars, call>>
       /\ IF r.ok
             THEN OnMessageRest(s, m, Schedule(pb, id, r.frameCount),
                     [chunk EXCEPT ![id] =
                        [c EXCEPT !.st = "scheduled", !.msg = NoMessage,
                                  !.frames = r.frameCount,
                                  !.start = pb.nextStartTime,
                                  !.endTime = Max(pb.nextStartTime, clock) + r.frameCount]],
                     id - 1)
          ELSE OnMessageRest(s, m, Drop(pb),
                     [chunk EXCEPT ![id] = [c EXCEPT !.st = "dropped", !.msg = NoMessage]],
                     id - 1)

\* an 'ended' listener that leaves the source in the set
OnEndedKeeps(id) ==
    /\ chunk[id].st = "scheduled"
    /\ id \notin sources[chunk[id].s] \/ clock >= chunk[id].endTime
    /\ chunk' = [chunk EXCEPT ![id].st = "ended", ![id].endTime = -1]
    /\ sources' = sources
    /\ UNCHANGED <<uiVars, phase, connect, nextStartTime, mediaStream,
                   scriptProcessor, closeRequested, errored, arrived, clock,
                   started, wireVars, call>>

\* the 'ended' listener of a source, lines 221-223; the event is fired when
\* the buffer has played to its end or the source was stopped (a started
\* source that is no longer in the set was stopped by a flush).
OnEnded(id) ==
    /\ chunk[id].st = "scheduled"
    /\ id \notin sources[chunk[id].s] \/ clock >= chunk[id].endTime
    /\ chunk' = [chunk EXCEPT ![id].st = "ended", ![id].endTime = -1]
    /\ sources' = [sources EXCEPT ![chunk[id].s] = @ \ {id}]
    /\ UNCHANGED <<uiVars, phase, connect, nextStartTime, mediaStream,
                   scriptProcessor, closeRequested, errored, arrived, clock,
                   started, wireVars, call>>

\* a clock that stands still while sources play
TickPlayingStalls ==
    /\ \E s \in Sessions : \E i \in sources[s] : chunk[i].endTime > clock
    /\ clock' = clock
    /\ UNCHANGED <<uiVars, svcVars, chunk, arrived, started, wireVars, call>>

\* outputAudioContext.currentTime advances while a started source has not
\* played to its end (the clock of a running context does not stop)
TickPlaying ==
    /\ \E s \in Sessions : \E i \in sources[s] : chunk[i].endTime > clock
    /\ clock' = clock + 1
    /\ UNCHANGED <<uiVars, svcVars, chunk, arrived, started, wireVars, call>>

\* outputAudioContext.currentTime advances
Tick ==
    /\ clock < MaxClock
    /\ clock' = clock + 1
    /\ UNCHANGED <<uiVars, svcVars, chunk, arrived, started, wireVars, call>>

\* ------------------------------------------------ session establishment
\* A conversation whose channel has closed, or was never connected, and
\* that has no handler suspended: none of its callbacks runs again, and the
\* values they closed over are dropped from the state.
Finished(s) ==
    /\ phase[s] \in {"closed", "failed"}
    /\ \A i \in ChunkIds : ~ (chunk[i].s = s /\ chunk[i].st = "decoding")

\* a start that leaves the input transcription as the last conversation left it
StartConversationKeepsInput ==
    /\ ~ isRecording /\ ~ isConnecting
    /\ started < MaxSessions
    /\ LET s == started + 1 IN
       /\ started' = s
       /\ isConnecting' = TRUE
       /\ error' = "null"
       /\ currentInputTranscription' = currentInputTranscription
       /\ currentOutputTranscription' = EmptyText
       /\ chatHistory' = << >>
       /\ captured' = [t \in Sessions |->
                          IF t = s THEN [input |-> currentInputTranscription,
                                         output |-> currentOutputTranscription]
                          ELSE IF Finished(t) THEN NoCapture
                          ELSE captured[t]]
       /\ sessionPromiseRef' = s
       /\ phase' = [phase EXCEPT ![s] = "mic"]
       /\ connect' = [connect EXCEPT ![s] = "pending"]
       /\ nextStartTime' = [nextStartTime EXCEPT ![s] = 0]
       /\ sources' = [sources EXCEPT ![s] = {}]
       /\ mediaStream' = [mediaStream EXCEPT ![s] = "null"]
       /\ scriptProcessor' = [scriptProcessor EXCEPT ![s] = "null"]
       /\ UNCHANGED <<isRecording, sessionRef, closeRequested, errored,
                      audVars, wireVars, call>>

\* handleStartConversation, lines 28-84, up to the first await: the button
\* is rendered while not recording and enabled while not connecting.  The
\* callbacks built here close over the transcription state of this render.
\* connectLiveSession runs up to `await getUserMedia` (lines 168-183).
StartConversation ==
    /\ ~ isRecording /\ ~ isConnecting
    /\ started < MaxSessions
    /\ LET s == started + 1 IN
       /\ started' = s
       /\ isConnecting' = TRUE
       /\ error' = "null"
       /\ currentInputTranscription' = EmptyText
       /\ currentOutputTranscription' = EmptyText
       /\ chatHistory' = << >>
       /\ captured' = [t \in Sessions |->
                          IF t = s THEN [input |-> currentInputTranscription,
                                         output |-> currentOutputTranscription]
                          ELSE IF Finished(t) THEN NoCapture
                          ELSE captured[t]]
       /\ sessionPromiseRef' = s
       /\ phase' = [phase EXCEPT ![s] = "mic"]
       /\ connect' = [connect EXCEPT ![s] = "pending"]
       /\ nextStartTime' = [nextStartTime EXCEPT ![s] = 0]
       /\ sources' = [sources EXCEPT ![s] = {}]
       /\ mediaStream' = [mediaStream EXCEPT ![s] = "null"]
       /\ scriptProcessor' = [scriptProcessor EXCEPT ![s] = "null"]
       /\ UNCHANGED <<isRecording, sessionRef, closeRequested, errored,
                      audVars, wireVars, call>>

\* a catch block that leaves the component connecting
StartFailedKeepsConnecting(reason) ==
    /\ error' = reason
    /\ isConnecting' = isConnecting
    /\ isRecording' = FALSE
    /\ UNCHANGED <<currentInputTranscription, currentOutputTranscription,
                   chatHistory, sessionRef, sessionPromiseRef, captured>>

\* the catch and finally blocks of handleStartConversation, lines 86-93
StartFailed(reason) ==
    /\ error' = reason
    /\ isConnecting' = FALSE
    /\ isRecording' = FALSE
    /\ UNCHANGED <<currentInputTranscription, currentOutputTranscription,
                   chatHistory, sessionRef, sessionPromiseRef, captured>>

\* getUserMedia rejects: lines 184-187, then the catch of the component
MicDenied(s) ==
    /\ phase[s] = "mic"
    /\ phase' = [phase EXCEPT ![s] = "failed"]
    /\ connect' = [connect EXCEPT ![s] = "rejected"]
    /\ StartFailed("microphone")
    /\ UNCHANGED <<nextStartTime, sources, mediaStream, scriptProcessor,
                   closeRequested, errored, audVars, started, wireVars, call>>

\* getUserMedia resolves: lines 183 and 189, ai.live.connect is called
MicGranted(s) ==
    /\ phase[s] = "mic"
    /\ phase' = [phase EXCEPT ![s] = "connecting"]
    /\ mediaStream' = [mediaStream EXCEPT ![s] = "live"]
    /\ UNCHANGED <<uiVars, connect, nextStartTime, sources, scriptProcessor,
                   closeRequested, errored, audVars, started, wireVars, call>>

\* onopen, lines 192-205: the capture path is built and the capture
\* callback registered
OnOpen(s) ==
    /\ phase[s] = "connecting"
    /\ phase' = [phase EXCEPT ![s] = "open"]
    /\ scriptProcessor' = [scriptProcessor EXCEPT ![s] = "connected"]
    /\ UNCHANGED <<uiVars, connect, nextStartTime, sources, mediaStream,
                   closeRequested, errored, audVars, started, wireVars, call>>

\* the states of the channel of s, other than open, that a send made now
\* finds: close() was called on the session, or onclose has run
SendState(s) == IF phase[s] = "closed" THEN {"closed"}
                ELSE IF closeRequested[s] THEN {"closing"}
                ELSE {}

Reverse(q) == [i \in 1..Len(q) |-> q[Len(q) + 1 - i]]

\* the waiting sends run last registered first
RunDeferredLastFirst(done, queue) == done \o Reverse(queue)

\* lines 199-201: the callbacks chained to the connect promise with `then`
\* run, when it resolves, in the order they were chained in
RunDeferred(done, queue) == done \o queue

\* the connect promise resolves once the channel has opened: the sends the
\* capture callback chained to it run (lines 199-201), some of which may
\* throw, then handleStartConversation resumes, lines 84-85 and 92
ConnectResolved(s) ==
    /\ connect[s] = "pending"
    /\ scriptProcessor[s] # "null"
    /\ connect' = [connect EXCEPT ![s] = "resolved"]
    /\ sent' = [sent EXCEPT ![s] = RunDeferred(@, deferred[s])]
    /\ deferred' = [deferred EXCEPT ![s] = << >>]
    /\ \E failed \in 0..Len(deferred[s]) :
          unhandled' = [unhandled EXCEPT ![s] = @ + failed]
    /\ lateSends' = [lateSends EXCEPT ![s] =
                        IF deferred[s] # << >> THEN @ \cup SendState(s) ELSE @]
    /\ UNCHANGED <<pcmBlob, call>>
    /\ sessionRef' = s
    /\ isRecording' = TRUE
    /\ isConnecting' = FALSE
    /\ UNCHANGED <<error, currentInputTranscription, currentOutputTranscription,
                   chatHistory, sessionPromiseRef, captured, phase,
                   nextStartTime, sources, mediaStream, scriptProcessor,
                   closeRequested, errored, audVars, started>>

\* the connect promise rejects, the channel never having opened:
\* handleStartConversation resumes in its catch block
ConnectRejected(s) ==
    /\ connect[s] = "pending"
    /\ scriptProcessor[s] = "null"
    /\ phase[s] \in {"connecting", "closed"}
    /\ connect' = [connect EXCEPT ![s] = "rejected"]
    /\ phase' = [phase EXCEPT ![s] = IF @ = "connecting" THEN "failed" ELSE @]
    /\ StartFailed("connect")
    /\ UNCHANGED <<nextStartTime, sources, mediaStream, scriptProcessor,
                   closeRequested, errored, audVars, started, wireVars, call>>

\* ---------------------------------------------------- error, close, stop
\* onerror, lines 243-246, calling onError of the component
OnError(s) ==
    /\ phase[s] \in {"connecting", "open"}
    /\ errored' = [errored EXCEPT ![s] = phase[s]]
    /\ UiOnError
    /\ UNCHANGED <<phase, connect, nextStartTime, sources, mediaStream,
                   scriptProcessor, closeRequested, audVars, started,
                   wireVars, call>>

CloseCodes == {NormalClosure, NormalClosure + 6}

\* line 264: every track of the stream, if there is one, is stopped
StopTracks(stream) == IF stream # "null" THEN "stopped" ELSE stream

\* lines 257-263: the script processor and the stream source, if onopen
\* created them, are disconnected and the capture callback is removed
DisconnectCapture(processor) == IF processor # "null" THEN "disconnected" ELSE processor

\* onclose, lines 247-267, calling onClose of the component
OnClose(s, code) ==
    /\ phase[s] \in {"connecting", "open"}
    /\ phase' = [phase EXCEPT ![s] = "closed"]
    /\ nextStartTime' = [nextStartTime EXCEPT ![s] = Flush(Playback(s)).nextStartTime]
    /\ sources' = [sources EXCEPT ![s] = Flush(Playback(s)).sources]
    /\ chunk' = MarkCut(chunk, s, sources[s], arrived, "close")
    /\ scriptProcessor' = [scriptProcessor EXCEPT ![s] = DisconnectCapture(@)]
    /\ mediaStream' = [mediaStream EXCEPT ![s] = StopTracks(@)]
    /\ UiOnClose(code)
    /\ UNCHANGED <<connect, closeRequested, errored, arrived, clock, started,
                   wireVars, call>>

\* a stop handler that keeps the session in sessionRef
handleStopKeepsRef(ref) ==
    [ closes |-> IF ref # NoSession THEN {ref} ELSE {},
      isRecording |-> FALSE,
      sessionRef |-> ref,
      sessionPromiseRef |-> NoSession ]

\* handleStopConversation, lines 96-103, run with sessionRef.current = ref:
\* the sessions it calls close() on and the values it leaves
handleStopConversation(ref) ==
    [ closes |-> IF ref # NoSession THEN {ref} ELSE {},
      isRecording |-> FALSE,
      sessionRef |-> NoSession,
      sessionPromiseRef |-> NoSession ]

\* a click on the Stop button, which is rendered while recording
StopConversation ==
    /\ isRecording
    /\ closeRequested' = [s \in Sessions |->
                             \/ closeRequested[s]
                             \/ s \in handleStopConversation(sessionRef).closes]
    /\ isRecording' = handleStopConversation(sessionRef).isRecording
    /\ sessionRef' = handleStopConversation(sessionRef).sessionRef
    /\ sessionPromiseRef' = handleStopConversation(sessionRef).sessionPromiseRef
    /\ UNCHANGED <<isConnecting, error, currentInputTranscription,
                   currentOutputTranscription, chatHistory, captured, phase,
                   connect, nextStartTime, sources, mediaStream,
                   scriptProcessor, errored, audVars, started, wireVars, call>>

\* ----------------------------------------------------------- capture path
\* a capture callback that also resets the playback cursor
CaptureResetsCursor(s, data, throws) ==
    LET n == Len(sent[s]) + Len(deferred[s]) + 1 IN
    /\ scriptProcessor[s] = "connected"
    /\ n <= MaxCapture
    /\ pcmBlob' = createBlob(data)
    /\ IF connect[s] = "resolved"
          THEN /\ sent' = [sent EXCEPT ![s] = Append(@, n)]
               /\ unhandled' = [unhandled EXCEPT ![s] = IF throws THEN @ + 1 ELSE @]
               /\ lateSends' = [lateSends EXCEPT ![s] = @ \cup SendState(s)]
               /\ UNCHANGED deferred
          ELSE /\ ~ throws
               /\ deferred' = [deferred EXCEPT ![s] = Append(@, n)]
               /\ UNCHANGED <<sent, unhandled, lateSends>>
    /\ nextStartTime' = [nextStartTime EXCEPT ![s] = 0]
    /\ UNCHANGED <<uiVars, phase, connect, sources, mediaStream, scriptProcessor,
                   closeRequested, errored, audVars, started, call>>

\* onaudioprocess, lines 196-202, for the chunk `data`: the callback
\* registered by onopen builds the blob of the chunk and chains the send to
\* the connect promise; the send runs at once when the promise has resolved,
\* and `throws` tells whether sendRealtimeInput throws.  Nothing handles the
\* rejection of the chained promise.
Capture(s, data, throws) ==
    LET n == Len(sent[s]) + Len(deferred[s]) + 1 IN
    /\ scriptProcessor[s] = "connected"
    /\ n <= MaxCapture
    /\ pcmBlob' = createBlob(data)
    /\ IF connect[s] = "resolved"
          THEN /\ sent' = [sent EXCEPT ![s] = Append(@, n)]
               /\ unhandled' = [unhandled EXCEPT ![s] = IF throws THEN @ + 1 ELSE @]
               /\ lateSends' = [lateSends EXCEPT ![s] = @ \cup SendState(s)]
               /\ UNCHANGED deferred
          ELSE /\ ~ throws
               /\ deferred' = [deferred EXCEPT ![s] = Append(@, n)]
               /\ UNCHANGED <<sent, unhandled, lateSends>>
    /\ UNCHANGED <<uiVars, svcVars, audVars, started, call>>

OnAudioProcess(s, data) == \E throws \in BOOLEAN : Capture(s, data, throws)

\* ------------------------------------------------- calls of the codec
\* one call of a codec function on one argument
CallCreateBlob(data) ==
    /\ call = NoCall
    /\ call' = [fn |-> "createBlob", data |-> data, result |-> createBlob(data)]
    /\ UNCHANGED <<uiVars, svcVars, audVars, started, wireVars>>

CallDecodeAudioData(data, numChannels) ==
    /\ call = NoCall
    /\ call' = [fn |-> "decodeAudioData", data |-> data,
                numChannels |-> numChannels,
                result |-> decodeAudioSamples(data, numChannels)]
    /\ UNCHANGED <<uiVars, svcVars, audVars, started, wireVars>>

CallEncode(bytes) ==
    /\ call = NoCall
    /\ call' = [fn |-> "encode", data |-> bytes, result |-> encode(bytes)]
    /\ UNCHANGED <<uiVars, svcVars, audVars, started, wireVars>>

\* ------------------------------------------------------------ specification
\* the events of a conversation that runs without failure and that the
\* server closes, messages apart
NormalLife ==
    \/ \E s \in Sessions : MicGranted(s)
    \/ \E s \in Sessions : OnOpen(s)
    \/ \E s \in Sessions : ConnectResolved(s)
    \/ \E s \in Sessions, code \in CloseCodes : OnClose(s, code)

\* the failures of a conversation
Failures ==
    \/ \E s \in Sessions : MicDenied(s)
    \/ \E s \in Sessions : ConnectRejected(s)
    \/ \E s \in Sessions : OnError(s)

\* messages that carry audio and interruption signals only
PlaybackMessages ==
    { m \in Messages : /\ ~ m.inputTranscription.present
                       /\ ~ m.outputTranscription.present
                       /\ ~ m.turnComplete }

\* messages that carry transcription fragments and turn-complete signals only
TranscriptMessages == { m \in Messages : ~ m.audio.present /\ ~ m.interrupted }

\* The playback pipeline during the first conversation, seen from the
\* channel: its callbacks, the decodes, the sources and the output clock.
NextPlayback ==
    \/ started = 0 /\ StartConversation
    \/ \E s \in Sessions : MicGranted(s)
    \/ \E s \in Sessions : OnOpen(s)
    \/ \E s \in Sessions, code \in CloseCodes : OnClose(s, code)
    \/ Tick
    \/ \E s \in Sessions, m \in PlaybackMessages : OnMessage(s, m)
    \/ \E id \in ChunkIds : OnMessageResume(id)
    \/ \E id \in ChunkIds : OnEnded(id)

SpecPlayback == Init /\ [][NextPlayback]_vars

\* The first conversation with channel errors.
NextTeardown ==
    \/ NextPlayback
    \/ \E s \in Sessions : ConnectResolved(s)
    \/ \E s \in Sessions : OnError(s)

SpecTeardown == Init /\ [][NextTeardown]_vars

\* The transcription accumulator over successive conversations.
NextTranscript ==
    \/ StartConversation
    \/ NormalLife
    \/ \E s \in Sessions, m \in TranscriptMessages : OnMessage(s, m)

SpecTranscript == Init /\ [][NextTranscript]_vars

\* The life of successive conversations, failures included.
NextLife ==
    \/ StartConversation
    \/ StopConversation
    \/ NormalLife
    \/ Failures

SpecLife == Init /\ [][NextLife]_vars

\* The capture path of the first conversation, with the Stop button.
NextCapture ==
    \/ started = 0 /\ StartConversation
    \/ StopConversation
    \/ NormalLife
    \/ \E s \in Sessions, data \in SampleChunks : OnAudioProcess(s, data)

SpecCapture == Init /\ [][NextCapture]_vars

\* Successive conversations with microphone failures and audio messages.
NextStartFailure ==
    \/ StartConversation
    \/ NormalLife
    \/ \E s \in Sessions : MicDenied(s)
    \/ \E s \in Sessions, m \in PlaybackMessages : OnMessage(s, m)
    \/ \E id \in ChunkIds : OnMessageResume(id)
    \/ \E id \in ChunkIds : OnEnded(id)

SpecStartFailure == Init /\ [][NextStartFailure]_vars

\* The codec functions applied to chunks and byte buffers.
NextCodec ==
    \/ call = NoCall /\ \E data \in SampleChunks : CallCreateBlob(data)
    \/ call = NoCall /\ \E data \in ByteBuffers, numChannels \in 1..MaxChannels :
                           CallDecodeAudioData(data, numChannels)
    \/ call = NoCall /\ \E bytes \in ByteBuffers : CallEncode(bytes)

SpecCodec == Init /\ [][NextCodec]_vars

\* a handler of onmessage is suspended at its await
Decoding == \E i \in ChunkIds : chunk[i].st = "decoding"

\* The playback pipeline when every decode settles before the next channel
\* event is handled: no two handlers of the channel interleave.
NextCursor ==
    \/ started = 0 /\ StartConversation
    \/ \E s \in Sessions : MicGranted(s)
    \/ \E s \in Sessions : OnOpen(s)
    \/ ~ Decoding /\ \E s \in Sessions, code \in CloseCodes : OnClose(s, code)
    \/ Tick
    \/ ~ Decoding /\ \E s \in Sessions, m \in PlaybackMessages : OnMessage(s, m)
    \/ \E id \in ChunkIds : OnMessageResume(id)
    \/ \E id \in ChunkIds : OnEnded(id)

SpecCursor == Init /\ [][NextCursor]_vars

\* chunks of silence
SilentChunks == { [i \in 1..n |-> 0] : n \in 1..MaxSamples }

\* messages with a chunk of one frame, an interruption signal or a fragment
\* of the input transcription
DuplexMessages ==
    { m \in Messages :
        /\ m.audio \in {NoAudio, [present |-> TRUE, b64ok |-> TRUE, nbytes |-> 2]}
        /\ m.inputTranscription \in {NoTranscription, [present |-> TRUE, text |-> <<"a">>]}
        /\ ~ m.outputTranscription.present
        /\ ~ m.turnComplete }

\* The first conversation with its two directions: the capture callback and
\* the handlers of the inbound messages, in any interleaving.
NextDuplex ==
    \/ started = 0 /\ StartConversation
    \/ NormalLife
    \/ \E s \in Sessions, data \in SilentChunks : OnAudioProcess(s, data)
    \/ \E s \in Sessions, m \in DuplexMessages : OnMessage(s, m)
    \/ \E id \in ChunkIds : OnMessageResume(id)

SpecDuplex == Init /\ [][NextDuplex]_vars

TypeOK ==
    /\ isConnecting \in BOOLEAN /\ isRecording \in BOOLEAN
    /\ error \in {"null", "live", "disconnected", "microphone", "connect"}
    /\ Len(currentInputTranscription) <= MaxText
    /\ Len(currentOutputTranscription) <= MaxText
    /\ Len(chatHistory) <= MaxHistory
    /\ sessionRef \in Sessions \cup {NoSession}
    /\ \A s \in Sessions : sources[s] \subseteq ChunkIds
    /\ clock \in 0..MaxClock
    /\ \A s \in Sessions : Len(sent[s]) + Len(deferred[s]) <= MaxCapture

\* ------------------------------------------------------------------ claims
Started(i) == chunk[i].start >= 0

\* C1: the start times of the chunks of a session, taken in arrival order,
\* never overlap: each started chunk starts at or after the start plus the
\* duration of every started chunk that arrived before it (chunks that a
\* flush has cut are left aside), whatever the order the decodes settle in.
C1_ArrivalOrderNoOverlap ==
    \A i, j \in ChunkIds :
        ( /\ i < j
          /\ chunk[i].s = chunk[j].s
          /\ Started(i) /\ Started(j)
          /\ chunk[i].cut = "no" /\ chunk[j].cut = "no" )
        => chunk[j].start >= chunk[i].start + chunk[i].frames

\* the handler of message m of session s runs to its end in this step
HandledAtOnce(s, m) ==
    /\ ~ m.audio.present \/ ~ decode(m.audio).ok
    /\ OnMessage(s, m)

\* C2: when onmessage has processed a message whose `interrupted` is true,
\* with or without an audio chunk in the same message, the set of sources
\* of the session is empty and nextStartTime is 0.
C2_InterruptionFlushes ==
    [][ /\ \A s \in Sessions, m \in Messages :
              (m.interrupted /\ HandledAtOnce(s, m))
              => sources'[s] = {} /\ nextStartTime'[s] = 0
        /\ \A id \in ChunkIds :
              (chunk[id].msg.interrupted /\ OnMessageResume(id))
              => sources'[chunk[id].s] = {} /\ nextStartTime'[chunk[id].s] = 0
      ]_vars

\* C2 witness: an interruption has stopped a pending source and the session
\* is left with no source and the cursor at 0.
C2_Witness ==
    \E id \in ChunkIds :
        /\ chunk[id].cut = "interrupt" /\ chunk[id].st = "scheduled"
        /\ sources[chunk[id].s] = {}
        /\ nextStartTime[chunk[id].s] = 0

\* C3: a chunk that arrived before an interruption that has been processed
\* is not in the set of sources, even if it was still being decoded when the
\* interruption arrived.
C3_HardCut ==
    \A id \in ChunkIds :
        chunk[id].cut = "interrupt" => id \notin sources[chunk[id].s]

\* C7: once onclose has run for a session, its set of sources is empty and
\* stays empty, nextStartTime is 0, the capture path is disconnected and the
\* microphone tracks are stopped.
C7_ClosedIsTornDown ==
    \A s \in Sessions :
        phase[s] = "closed" =>
            /\ sources[s] = {}
            /\ nextStartTime[s] = 0
            /\ scriptProcessor[s] # "connected"
            /\ mediaStream[s] = "stopped"

\* the handler of a message of session s that carries a turn-complete runs
\* to its end in this step, with the accumulated texts input and output
TurnCompleteHandled(s, m) ==
    /\ m.turnComplete
    /\ \/ HandledAtOnce(s, m)
       \/ \E id \in ChunkIds :
             chunk[id].s = s /\ chunk[id].msg = m /\ OnMessageResume(id)

\* the entries of chatHistory' that this step appended
AppendedEntries ==
    SubSeq(chatHistory', Len(chatHistory) + 1, Len(chatHistory'))

\* C4: a turn-complete appends, for each buffer on its own, one entry with
\* the text accumulated in the buffer when that text is not empty after
\* trimming (sender user for the input buffer, model for the output buffer),
\* and no entry otherwise.
C4_TurnCompleteFlushesBuffers ==
    [][ \A s \in Sessions, m \in Messages :
          TurnCompleteHandled(s, m) =>
             chatHistory' = chatHistory \o
                TurnEntries([input  |-> TranscribedInput(m, currentInputTranscription),
                             output |-> TranscribedOutput(m, currentOutputTranscription)])
      ]_vars

\* C5: after a turn-complete both transcription buffers are empty, and the
\* entries it appended to chatHistory have the user entry before the model
\* entry.
C5_TurnCompleteResetsAndOrders ==
    [][ \A s \in Sessions, m \in Messages :
          TurnCompleteHandled(s, m) =>
             /\ currentInputTranscription' = EmptyText
             /\ currentOutputTranscription' = EmptyText
             /\ Len(chatHistory') >= Len(chatHistory)
             /\ SubSeq(chatHistory', 1, Len(chatHistory)) = chatHistory
             /\ \A i, j \in DOMAIN AppendedEntries :
                   i < j => ~ ( /\ AppendedEntries[i].sender = "model"
                                /\ AppendedEntries[j].sender = "user" )
      ]_vars

\* C5 witness: a turn-complete has appended a user entry followed by a model
\* entry and left both buffers empty.
C5_Witness ==
    /\ Len(chatHistory) = 2
    /\ chatHistory[1].sender = "user"
    /\ chatHistory[2].sender = "model"
    /\ currentInputTranscription = EmptyText
    /\ currentOutputTranscription = EmptyText

\* C6: every fragment of a message is appended to its own buffer, the input
\* fragment to the input buffer and the output fragment to the output
\* buffer, also when one message carries both.
C6_FragmentsAppended ==
    [][ \A s \in Sessions, m \in Messages :
          (~ m.turnComplete /\ HandledAtOnce(s, m)) =>
             /\ currentInputTranscription' =
                   currentInputTranscription \o m.inputTranscription.text
             /\ currentOutputTranscription' =
                   currentOutputTranscription \o m.outputTranscription.text
      ]_vars

\* C8: after onClose both transcription buffers are empty.
C8_CloseResetsBuffers ==
    [][ \A s \in Sessions, code \in CloseCodes :
          OnClose(s, code) =>
             /\ currentInputTranscription' = EmptyText
             /\ currentOutputTranscription' = EmptyText
      ]_vars

\* C9: a channel error leaves the lifecycle state as it was: the
\* connecting and recording flags and the phase of the session are the same
\* before and after onError.
C9_ErrorKeepsState ==
    [][ \A s \in Sessions :
          OnError(s) =>
             /\ isConnecting' = isConnecting
             /\ isRecording' = isRecording
             /\ phase'[s] = phase[s]
      ]_vars

\* every resource of the session is released
TornDown(s) ==
    /\ phase[s] = "closed"
    /\ mediaStream[s] = "stopped"
    /\ scriptProcessor[s] = "disconnected"
    /\ sources[s] = {}

\* C10: once a session that raised an error while open has been closed,
\* every resource it acquired is released: the microphone tracks are
\* stopped, the capture path is disconnected and no source is left in the
\* set, onclose having stopped them all.
C10_ErrorTeardownComplete ==
    \A s \in Sessions :
        (errored[s] = "open" /\ phase[s] = "closed") => TornDown(s)

\* a session whose channel is not closed yet
Live(s) == phase[s] \in {"mic", "connecting", "open"}

\* C11: stop is effective from connecting and from open: whenever the
\* conversation the component holds is connecting or open, a stop invoked
\* then requests the close of the channel of that session.
C11_StopEffective ==
    \A s \in Sessions :
        (sessionPromiseRef = s /\ Live(s))
        => s \in handleStopConversation(sessionRef).closes

\* C12: no sendRealtimeInput call is made on a session after stop has
\* requested the close of its channel, the capture callback having been
\* cancelled before the request.
C12_NoSendAfterStop ==
    \A s \in Sessions : "closing" \notin lateSends[s]

\* a stop invoked with the values ref, promiseRef and recording changes none
\* of them and closes no channel
StopIsNoOp(ref, promiseRef, recording) ==
    /\ handleStopConversation(ref).closes = {}
    /\ handleStopConversation(ref).sessionRef = ref
    /\ handleStopConversation(ref).sessionPromiseRef = promiseRef
    /\ handleStopConversation(ref).isRecording = recording

\* C13: stop is idempotent: a stop invoked before any start, and a stop
\* invoked right after a stop, closes no channel and leaves the state as it
\* finds it.
C13_StopIdempotent ==
    [][ /\ started = 0 => StopIsNoOp(sessionRef, sessionPromiseRef, isRecording)
        /\ StopConversation =>
              StopIsNoOp(sessionRef', sessionPromiseRef', isRecording')
      ]_vars

\* C13 witness: a stop has requested the close of a session and left the
\* component idle.
C13_Witness ==
    \E s \in Sessions :
        /\ closeRequested[s] /\ phase[s] = "open"
        /\ ~ isRecording /\ sessionRef = NoSession

\* the microphone acquisition of session s has failed
MicFailed(s) == phase[s] = "failed" /\ mediaStream[s] = "null"

\* the channel of session s was never connected: no callback of it has run
\* and none of its audio was scheduled or sent
NeverConnected(s) ==
    /\ scriptProcessor[s] = "null"
    /\ errored[s] = "no"
    /\ sources[s] = {} /\ nextStartTime[s] = 0
    /\ \A i \in ChunkIds : chunk[i].s # s
    /\ sent[s] = << >> /\ deferred[s] = << >>

\* C14: when the microphone acquisition fails the connect promise of the
\* session is rejected and the component is left not connecting and not
\* recording with the error set; the session never opens: its channel is
\* never connected, none of its callbacks runs and none of its audio is
\* scheduled, whatever the other conversations do.
C14_MicFailureAborts ==
    [][ \A s \in Sessions :
          /\ MicDenied(s) =>
                /\ MicFailed(s)' /\ connect'[s] = "rejected"
                /\ ~ isConnecting' /\ ~ isRecording' /\ error' = "microphone"
          /\ MicFailed(s) => MicFailed(s)' /\ NeverConnected(s)'
      ]_vars

\* C14 witness: the microphone was refused to the second conversation while
\* the first still holds a scheduled source.
C14_Witness ==
    \E s, u \in Sessions :
        /\ MicFailed(s) /\ error = "microphone"
        /\ ~ isConnecting /\ ~ isRecording
        /\ sources[u] # {}

\* the sessions that are connecting or open and hold the microphone
HoldingMicrophone ==
    { s \in Sessions : phase[s] \in {"connecting", "open"} /\ mediaStream[s] = "live" }

\* C15: at no time do two sessions that are connecting or open hold the
\* microphone together.
C15_OneLiveSession == Cardinality(HoldingMicrophone) <= 1

Abs(x) == IF x >= 0 THEN x ELSE - x

\* the samples decode and decodeAudioData (one channel) return for the blob
BlobSamples(blob) ==
    decodeAudioSamples(decodeBytes(blob.data).bytes, NumChannels)

\* C16: every sample of [-1, 1], both ends included, encoded by createBlob
\* and decoded by decode and decodeAudioData, comes back within 1 / 32768.
C16_RoundTripWithinStep ==
    call.fn = "createBlob" =>
        /\ decodeBytes(call.result.data).ok
        /\ BlobSamples(call.result).ok
        /\ \A i \in DOMAIN call.data :
              Abs(BlobSamples(call.result).channels[1][i] - call.data[i]) <= Int16Step

\* the nearest integer to x / Int16Step (halves go up, as Math.round),
\* kept within the int16 range
RoundClip(x) ==
    LET r == (x + 1) \div Int16Step
    IN IF r > Int16Scale - 1 THEN Int16Scale - 1
       ELSE IF r < - Int16Scale THEN - Int16Scale ELSE r

\* C17: createBlob quantises the sample s to round(s * 32768) clipped to
\* -32768..32767: a product of 32768 or more gives 32767.
C17_QuantizeRoundsAndClips ==
    call.fn = "createBlob" =>
        LET int16 == Int16View(decodeBytes(call.result.data).bytes)
        IN /\ Len(int16) = Len(call.data)
           /\ \A i \in DOMAIN call.data : int16[i] = RoundClip(call.data[i])

\* C18: for every channel count, decodeAudioData fails on a buffer whose
\* length is not a multiple of 2 x channels.
C18_MalformedLengthFails ==
    ( /\ call.fn = "decodeAudioData"
      /\ Len(call.data) % (BytesPerSample * call.numChannels) # 0 )
    => ~ call.result.ok

\* C19: the codec is stable on quantised values: the samples decodeAudioData
\* makes of int16 values are encoded by createBlob to the same int16 values,
\* and the bytes encode makes a string of are the bytes decode makes of it.
C19_QuantizedRoundTrip ==
    /\ ( /\ call.fn = "decodeAudioData"
         /\ call.numChannels = NumChannels
         /\ call.result.ok )
       => decodeBytes(createBlob(call.result.channels[1]).data)
             = [ok |-> TRUE, bytes |-> call.data]
    /\ call.fn = "encode"
       => decodeBytes(call.result) = [ok |-> TRUE, bytes |-> call.data]

\* C19 witness: the two int16 values -32768 and 32767 have been decoded.
C19_Witness ==
    /\ call.fn = "decodeAudioData"
    /\ call.numChannels = NumChannels
    /\ call.result.ok
    /\ Int16View(call.data) = << - Int16Scale, Int16Scale - 1 >>

\* the length of the base64 string of n bytes: 4 * ceil(n / 3)
Base64Length(n) == 4 * ((n + 2) \div 3)

\* C20: while the session is open, one invocation of the capture callback
\* makes one sendRealtimeInput call (made when the connect promise has
\* resolved), with one blob of type "audio/pcm;rate=16000" whose base64
\* string encodes 2 bytes per sample of the chunk.
C20_OneBlobPerChunk ==
    [][ \A s \in Sessions :
          /\ \A data \in SampleChunks :
                ( /\ phase[s] = "open"
                  /\ pcmBlob' = createBlob(data)
                  /\ OnAudioProcess(s, data) ) =>
                   /\ Len(sent'[s]) + Len(deferred'[s]) = Len(sent[s]) + Len(deferred[s]) + 1
                   /\ connect[s] = "resolved" => Len(sent'[s]) = Len(sent[s]) + 1
                   /\ pcmBlob'.mimeType = "audio/pcm;rate=16000"
                   /\ decodeBytes(pcmBlob'.data).ok
                   /\ Len(decodeBytes(pcmBlob'.data).bytes) = BytesPerSample * Len(data)
                   /\ Len(pcmBlob'.data) = Base64Length(BytesPerSample * Len(data))
          /\ ConnectResolved(s) =>
                /\ Len(sent'[s]) = Len(sent[s]) + Len(deferred[s])
                /\ deferred'[s] = << >>
      ]_vars

\* C20 witness: the callback of an open session has sent the blob of a chunk
\* of two samples.
C20_Witness ==
    \E s \in Sessions :
        /\ phase[s] = "open" /\ sent[s] # << >>
        /\ Len(pcmBlob.data) = Base64Length(BytesPerSample * 2)

\* C21: an inbound chunk that fails in atob or in decodeAudioData is
\* dropped and the session stays as it is: its source is not added to the
\* set, nextStartTime is not advanced by a duration (it is at most the clock
\* or its value before), no error and no close is raised to the component,
\* and the session stays open for the chunks that follow.
C21_BadChunkDropped ==
    [][ \A id \in ChunkIds :
          (chunk[id].st # "dropped" /\ chunk'[id].st = "dropped") =>
             LET s == chunk'[id].s IN
             /\ id \notin sources'[s]
             /\ sources'[s] \subseteq sources[s]
             /\ nextStartTime'[s] <= Max(nextStartTime[s], clock)
             /\ phase' = phase /\ errored' = errored
             /\ error' = error
             /\ isRecording' = isRecording /\ isConnecting' = isConnecting
      ]_vars

\* C21 witness: in an open session a chunk was dropped and the chunk that
\* arrived after it is scheduled.
C21_Witness ==
    \E i, j \in ChunkIds :
        /\ i < j /\ chunk[i].s = chunk[j].s
        /\ chunk[i].st = "dropped"
        /\ chunk[j].st = "scheduled" /\ j \in sources[chunk[j].s]
        /\ phase[chunk[j].s] = "open"

\* C22: a send that fails is logged: no rejection of a chained send is left
\* without a handler.  (The frame of a failed send is not sent again and the
\* capture callbacks that follow still send.)
C22_SendFailureLogged ==
    \A s \in Sessions : unhandled[s] = 0

\* C23: the blobs are handed to sendRealtimeInput in the order their chunks
\* were captured in, the chunks captured before the connect promise resolved
\* included.
C23_SentInCaptureOrder ==
    \A s \in Sessions :
        \A i, j \in DOMAIN sent[s] : i < j => sent[s][i] < sent[s][j]

\* C23 witness: two chunks captured before the connect promise resolved
\* have been sent (the channel had closed before, so no chunk was captured
\* after the promise resolved).
C23_Witness ==
    \E s \in Sessions :
        /\ Len(sent[s]) = 2
        /\ "closed" \in lateSends[s]

\* C29: a sendRealtimeInput call is made only while the session is open:
\* none before onopen has run and the connect promise has resolved, none
\* after onclose has run.
C29_SendOnlyWhileOpen ==
    \A s \in Sessions :
        /\ sent[s] # << >> => scriptProcessor[s] # "null" /\ connect[s] = "resolved"
        /\ "closed" \notin lateSends[s]

\* C25: once onError has set the error of the component, the error stays
\* set until the user starts a conversation: only a start clears it.
C25_ErrorStaysVisible ==
    [][ (error = "live" /\ error' = "null") => StartConversation ]_vars

\* C24: no state is reused across sessions: at every start the session
\* that begins has nextStartTime 0, no source, no capture path and no
\* microphone stream yet, the two transcription buffers and the chat history
\* of the component are empty, and the stream the session then acquires is
\* its own; this whatever the conversation before left.
C24_FreshSession ==
    [][ /\ StartConversation =>
             /\ nextStartTime'[started'] = 0
             /\ sources'[started'] = {}
             /\ mediaStream'[started'] = "null"
             /\ scriptProcessor'[started'] = "null"
             /\ sent'[started'] = << >> /\ deferred'[started'] = << >>
             /\ currentInputTranscription' = EmptyText
             /\ currentOutputTranscription' = EmptyText
             /\ chatHistory' = << >>
        /\ \A s \in Sessions :
             MicGranted(s) => mediaStream[s] = "null" /\ mediaStream'[s] = "live"
      ]_vars

\* C24 witness: the second conversation has begun with empty buffers and an
\* empty history after the first left a text in a buffer.
C24_Witness ==
    /\ started = 2 /\ phase[2] = "mic"
    /\ captured[2] # NoCapture
    /\ currentInputTranscription = EmptyText
    /\ currentOutputTranscription = EmptyText
    /\ chatHistory = << >>

\* C26: the cursor rule, no other handler running between the arrival of a
\* chunk and its scheduling: at the arrival nextStartTime becomes the
\* maximum of its value and the clock; it keeps that value while the chunk is
\* decoded; the source is started at that value, and nextStartTime is then
\* the start plus the duration of the buffer.
C26_CursorRule ==
    [][ /\ \A s \in Sessions, m \in PlaybackMessages :
              (m.audio.present /\ decode(m.audio).ok /\ OnMessage(s, m))
              => nextStartTime'[s] = Max(nextStartTime[s], clock)
        /\ \A id \in ChunkIds :
              chunk[id].st = "decoding" =>
                 IF chunk'[id].st = "decoding"
                    THEN nextStartTime'[chunk[id].s] = nextStartTime[chunk[id].s]
                 ELSE IF chunk'[id].st = "scheduled"
                    THEN /\ chunk'[id].start = nextStartTime[chunk[id].s]
                         /\ chunk'[id].frames =
                               decodeAudioData(decode(chunk[id].msg.audio).byteLength,
                                               NumChannels).frameCount
                         /\ ~ chunk[id].msg.interrupted =>
                               nextStartTime'[chunk[id].s]
                                  = chunk'[id].start + chunk'[id].frames
                 ELSE TRUE
      ]_vars

\* C26 witness: a chunk of two frames that arrived when idle, the clock at
\* 1, starts at 1, and the chunk that arrived while it was pending starts at
\* 1 + 2.
C26_Witness ==
    \E i, j \in ChunkIds :
        /\ i < j /\ chunk[i].s = chunk[j].s
        /\ chunk[i].cut = "no" /\ chunk[j].cut = "no"
        /\ chunk[i].frames = 2
        /\ chunk[i].start = 1
        /\ chunk[j].start = 3

\* the end of the interval a source was scheduled for
ScheduledEnd(i) == chunk[i].start + chunk[i].frames

\* C27: in every state the intervals [start, start + duration) of any two
\* sources that are in the set together are disjoint, and nextStartTime is at
\* or after the end of the interval of every source of the set.
C27_SetNonOverlapping ==
    \A s \in Sessions :
        /\ \A i, j \in sources[s] :
              i # j => \/ ScheduledEnd(i) <= chunk[j].start
                       \/ ScheduledEnd(j) <= chunk[i].start
        /\ \A i \in sources[s] : nextStartTime[s] >= ScheduledEnd(i)

\* C27 witness: two sources are in the set together, the second one
\* scheduled first because its decode settled first.
C27_Witness ==
    \E s \in Sessions :
        \E i, j \in sources[s] : i < j /\ chunk[j].start < chunk[i].start

\* C28: the set holds the sources that were started and have neither ended
\* nor been stopped by a flush: every source of the set is a started chunk of
\* the session that has not ended, a started chunk that no flush has cut is
\* in the set, a source is added by its scheduling only, and the 'ended'
\* event of a source removes that source and nothing else (nothing when a
\* flush had removed it before).
C28_SetIsPendingSources ==
    [][ /\ \A s \in Sessions : \A i \in sources[s] :
              chunk[i].s = s /\ chunk[i].st = "scheduled"
        /\ \A i \in ChunkIds :
              (chunk[i].st = "scheduled" /\ chunk[i].cut = "no")
              => i \in sources[chunk[i].s]
        /\ \A s \in Sessions : \A i \in sources'[s] \ sources[s] :
              chunk[i].st = "decoding" /\ chunk'[i].st = "scheduled"
        /\ \A i \in ChunkIds :
              OnEnded(i) =>
                 /\ chunk'[i].st = "ended"
                 /\ \A s \in Sessions : sources'[s] = sources[s] \ {i}
      ]_vars

\* C28 witness: the 'ended' event of a source that an interruption had
\* removed from the set has been handled, while another source is pending.
C28_Witness ==
    \E i, j \in ChunkIds :
        /\ chunk[i].st = "ended" /\ chunk[i].cut = "interrupt"
        /\ \E s \in Sessions : j \in sources[s]

\* C30: a capture callback leaves nextStartTime, the set of sources, the
\* two transcription buffers and the chat history as they are; a handler of
\* an inbound message, run to its await or resumed, leaves the capture
\* registration, the microphone stream and the sends as they are; whatever
\* the interleaving of the two.
C30_PathsDisjoint ==
    [][ /\ \A s \in Sessions, data \in SilentChunks :
              OnAudioProcess(s, data) =>
                 /\ nextStartTime' = nextStartTime /\ sources' = sources
                 /\ chunk' = chunk
                 /\ currentInputTranscription' = currentInputTranscription
                 /\ currentOutputTranscription' = currentOutputTranscription
                 /\ chatHistory' = chatHistory
        /\ ( \/ \E s \in Sessions, m \in DuplexMessages : OnMessage(s, m)
             \/ \E id \in ChunkIds : OnMessageResume(id) )
           => /\ scriptProcessor' = scriptProcessor
              /\ mediaStream' = mediaStream
              /\ sent' = sent /\ deferred' = deferred /\ pcmBlob' = pcmBlob
      ]_vars

\* C30 witness: a chunk was captured and sent while a handler of an inbound
\* message was suspended, the cursor and the buffers holding values.
C30_Witness ==
    \E s \in Sessions :
        /\ sent[s] # << >>
        /\ nextStartTime[s] > 0
        /\ sources[s] # {}
        /\ Decoding
        /\ currentInputTranscription # EmptyText

\* C31: no entry of the chat history made during a session holds text of
\* an earlier session: the text of every entry a turn-complete appends is
\* the text of a transcription buffer of the component at that moment (the
\* buffers are emptied at every start), never text a conversation before
\* had left in a buffer.
C31_NoTextFromEarlierSession ==
    [][ \A s \in Sessions, m \in Messages :
          TurnCompleteHandled(s, m) =>
             \A k \in DOMAIN AppendedEntries :
                AppendedEntries[k].text \in
                   { TranscribedInput(m, currentInputTranscription),
                     TranscribedOutput(m, currentOutputTranscription) }
      ]_vars

\* the values of the component that tell which conversation it holds
UiSession == <<sessionRef, sessionPromiseRef, isRecording, isConnecting>>

\* C32: the callbacks of a session that is not the one the component holds
\* leave sessionRef, sessionPromiseRef, isRecording and isConnecting as they
\* are: a late onClose or onError of a stopped session changes nothing of
\* the conversation started after it.
C32_LateCallbacksHarmless ==
    [][ \A s \in Sessions :
          ( /\ sessionPromiseRef # NoSession /\ sessionPromiseRef # s
            /\ \/ OnError(s)
               \/ \E code \in CloseCodes : OnClose(s, code) )
          => UiSession' = UiSession
      ]_vars

\* session s is open and captures the microphone
Capturing(s) ==
    /\ phase[s] = "open"
    /\ scriptProcessor[s] = "connected"
    /\ mediaStream[s] = "live"

\* C33: whenever isRecording is true, sessionRef holds a session whose
\* onclose has not run; and whenever a session, its connect promise
\* resolved, is open and captures the microphone, the component is recording
\* and sessionRef holds that session.
C33_UiMatchesSession ==
    /\ isRecording => sessionRef # NoSession /\ phase[sessionRef] # "closed"
    /\ \A s \in Sessions :
          (Capturing(s) /\ connect[s] = "resolved")
          => isRecording /\ sessionRef = s

\* C34: the microphone is held by a connecting or open session only: in
\* every state a session whose stream is live is connecting or open, the
\* tracks being stopped when the start fails after the acquisition.
C34_MicrophoneReleased ==
    \A s \in Sessions :
        mediaStream[s] = "live" => phase[s] \in {"connecting", "open"}

\* C37: a start attempt ends with isConnecting false and either isRecording
\* true, sessionRef set and no error (for a session that is open and raised
\* no error itself), or isRecording false and an error; isConnecting and
\* isRecording are never both true.
C37_StartSettles ==
    [][ /\ \A s \in Sessions :
              /\ ConnectResolved(s) =>
                    /\ ~ isConnecting' /\ isRecording' /\ sessionRef' = s
                    /\ (errored[s] = "no" /\ phase[s] = "open")
                          => error' = "null"
              /\ (MicDenied(s) \/ ConnectRejected(s)) =>
                    ~ isConnecting' /\ ~ isRecording' /\ error' # "null"
        /\ ~ (isConnecting' /\ isRecording')
      ]_vars

\* The inbound messages of the first conversation with all their fields,
\* the channel staying open: the handlers of onmessage and their awaits.
NextOrder ==
    \/ started = 0 /\ StartConversation
    \/ \E s \in Sessions : MicGranted(s)
    \/ \E s \in Sessions : OnOpen(s)
    \/ \E s \in Sessions, m \in Messages : OnMessage(s, m)
    \/ \E id \in ChunkIds : OnMessageResume(id)

SpecOrder == Init /\ [][NextOrder]_vars

\* message m has something for the transcript
ForTranscript(m) ==
    \/ m.inputTranscription.present
    \/ m.outputTranscription.present
    \/ m.turnComplete

\* C35: fragments and turn-complete signals reach the component's onMessage
\* in the order of arrival: when onMessage is called with a message that has
\* something for the transcript, no message of the session that arrived
\* before it and has something for the transcript is still waiting for its
\* call.
C35_TranscriptInArrivalOrder ==
    [][ /\ \A s \in Sessions, m \in Messages :
              (HandledAtOnce(s, m) /\ ForTranscript(m)) =>
                 ~ \E i \in ChunkIds :
                      /\ chunk[i].s = s /\ chunk[i].st = "decoding"
                      /\ ForTranscript(chunk[i].msg)
        /\ \A id \in ChunkIds :
              (OnMessageResume(id) /\ ForTranscript(chunk[id].msg)) =>
                 ~ \E i \in 1..(id - 1) :
                      /\ chunk[i].s = chunk[id].s /\ chunk[i].st = "decoding"
                      /\ ForTranscript(chunk[i].msg)
      ]_vars

DrainMessages == { m \in PlaybackMessages : ~ m.interrupted }

\* The playback of the first conversation with no interruption and no
\* close: chunks arrive, are decoded, scheduled and played to their end.
NextDrain ==
    \/ started = 0 /\ StartConversation
    \/ \E s \in Sessions : MicGranted(s)
    \/ \E s \in Sessions : OnOpen(s)
    \/ Tick
    \/ TickPlaying
    \/ \E s \in Sessions, m \in DrainMessages : OnMessage(s, m)
    \/ \E id \in ChunkIds : OnMessageResume(id)
    \/ \E id \in ChunkIds : OnEnded(id)

\* every decode settles, the output clock runs while a source plays, and
\* every source that has played to its end signals 'ended'
SpecDrain ==
    /\ Init /\ [][NextDrain]_vars
    /\ WF_vars(TickPlaying)
    /\ \A id \in ChunkIds : WF_vars(OnMessageResume(id))
    /\ \A id \in ChunkIds : WF_vars(OnEnded(id))

\* no source is in a set
Drained == \A s \in Sessions : sources[s] = {}

\* C38: playback drains: with no interruption and no close, from every
\* state the set of sources becomes empty, and an empty set stays empty
\* until a chunk is scheduled.
C38_PlaybackDrains ==
    /\ (~ Drained) ~> Drained
    /\ [][ (Drained /\ ~ Drained') => \E id \in ChunkIds : OnMessageResume(id) ]_vars

\* every chunk that can arrive was played to its end, and the set is empty
C38_Witness ==
    /\ Drained
    /\ \A i \in ChunkIds : chunk[i].st = "ended" /\ chunk[i].cut = "no"

====
